---- MODULE Spec2Model ----
(***************************************************************************)
(* File/folder storage and lifecycle engine of AzalMechanicalSupport.      *)
(*                                                                         *)
(* State: the rows of the files, folders, users and audit_logs tables, the *)
(* identity sequences of the first two, the database clock, the last HTTP  *)
(* response, and the requests suspended at an await.  One action per route *)
(* handler (src/shared/schema.ts, registerRoutes) on top of                *)
(* DatabaseStorage (src/server/storage.ts); the specifications of          *)
(* concurrent requests have one action per stretch between two awaits.     *)
(*                                                                         *)
(* Text values are sequences of one-character strings, so that trim() and  *)
(* sanitizeFolderName() are computed character by character.  SQL NULL,    *)
(* JS null and JS undefined for an id or a timestamp are Null (0): every   *)
(* identity column starts at 1, the clock starts at 1, and the handlers     *)
(* test ids by truthiness.                                                 *)
(* A query result is the set of the rows it returns (`const [row] = ...`   *)
(* takes the only element, or undefined when the set is empty).            *)
(***************************************************************************)
EXTENDS Integers, Sequences, FiniteSets, TLC

\* ---------------------------------------------------------------- bounds
MaxFileId == 3
MaxFolderId == 1
MaxAudit == 3
MaxTime == 2
\* the backup specification builds its tables with direct storage calls
MaxBackupFolderId == 2
MaxBackupFileId == 2
MaxBackupAudit == 1
\* the login specification: its clock and its audit log run further
MaxAuthTime == 3
MaxAuthAudit == 7

\* ---------------------------------------------------------------- inputs
Null == 0
Users == {1, 2}
FileIdInputs == 0..MaxFileId
FolderIdInputs == 0..MaxFolderId
\* req.file of multer's memory storage: the one file name and the one buffer
\* the requests carry.  The archivo column holds a buffer or nothing: it is the
\* set of the buffers it holds, empty for a row stored without one.
UploadedName == <<"f">>
UploadedBuffer == {<<"x">>}
NoBuffer == {}
Policies == {"purge", "link", "linkSoftDelete"}

VARIABLES files, folders, auditLogs, nextFileId, nextFolderId, now, policy, response,
          backup, users, calls

vars == <<files, folders, auditLogs, nextFileId, nextFolderId, now, policy, response, backup,
          users, calls>>

\* ------------------------------------------------------------- text helpers
RECURSIVE TrimStart(_)
TrimStart(s) ==
    IF s # <<>> /\ Head(s) = " " THEN TrimStart(Tail(s)) ELSE s

RECURSIVE TrimEnd(_)
TrimEnd(s) ==
    IF s # <<>> /\ s[Len(s)] = " " THEN TrimEnd(SubSeq(s, 1, Len(s) - 1)) ELSE s

trim(s) == TrimEnd(TrimStart(s))

InvalidNameChars == {"\\", "/", ":", "*", "?", "\"", "<", ">", "|"}

MaxFolderNameLen == 255

sanitizeFolderName(name) ==
    LET trimmed == trim(name)
        replaced == [i \in 1..Len(trimmed) |->
                        IF trimmed[i] \in InvalidNameChars THEN "_" ELSE trimmed[i]]
    IN trim(replaced)

\* ------------------------------------------------------ DatabaseStorage: files
getFile(fs, id) == {f \in fs : f.id = id /\ ~f.isDeleted}

getFileIncludingDeleted(fs, id) == {f \in fs : f.id = id}

getFileByContractId(fs, contractId) ==
    {f \in fs : f.contractId = contractId /\ ~f.isDeleted}

getFilesByUser(fs, userId) == {f \in fs : f.uploadedBy = userId /\ ~f.isDeleted}

\* getAllFiles without its is_deleted = false condition
getAllFilesIncludingDeleted(fs) == fs

getAllFiles(fs) == {f \in fs : ~f.isDeleted}

getFilesByFolder(fs, folderId) == {f \in fs : f.folderId = folderId /\ ~f.isDeleted}

\* ORDER BY uploaded_at DESC; rows with equal timestamps are taken newest id first
NewerThan(f, g) ==
    f.uploadedAt > g.uploadedAt \/ (f.uploadedAt = g.uploadedAt /\ f.id > g.id)

getRecentFiles(fs, limit) ==
    {f \in getAllFiles(fs) :
        Cardinality({g \in getAllFiles(fs) : NewerThan(g, f)}) < limit}

RecentLimit == 10

\* versions.sort((a, b) => a.version - b.version): stable insertion of each
\* collected row into the rows already ordered
RECURSIVE InsertByVersion(_, _)
InsertByVersion(sorted, f) ==
    IF sorted = <<>> THEN <<f>>
    ELSE IF sorted[Len(sorted)].version <= f.version THEN Append(sorted, f)
    ELSE Append(InsertByVersion(SubSeq(sorted, 1, Len(sorted) - 1), f),
                sorted[Len(sorted)])

RECURSIVE SortByVersion(_)
SortByVersion(rows) ==
    IF rows = <<>> THEN <<>>
    ELSE InsertByVersion(SortByVersion(SubSeq(rows, 1, Len(rows) - 1)), rows[Len(rows)])

RECURSIVE CollectVersions(_, _)
CollectVersions(fs, versions) ==
    LET current == versions[Len(versions)]
        prev == getFileIncludingDeleted(fs, current.previousVersionId)
    IN IF current.previousVersionId = Null \/ prev = {} THEN versions
       ELSE CollectVersions(fs, Append(versions, CHOOSE p \in prev : TRUE))

getFileVersions(fs, fileId) ==
    LET file == getFileIncludingDeleted(fs, fileId)
    IN IF file = {} THEN <<>>
       ELSE SortByVersion(CollectVersions(fs, <<CHOOSE f \in file : TRUE>>))

\* the version createFile computes for the row it inserts
createFileVersion(fs, previousVersionId) ==
    LET previousFile == IF previousVersionId # Null
                        THEN getFile(fs, previousVersionId) ELSE {}
    IN IF previousFile # {}
       THEN (CHOOSE p \in previousFile : TRUE).version + 1
       ELSE 1

\* createFile inserting under a fixed id instead of the identity value
createFileFixedId(fs, insertFile, id, t) ==
    [id |-> 1,
     contractId |-> insertFile.contractId,
     supplier |-> insertFile.supplier,
     folderId |-> insertFile.folderId,
     originalName |-> insertFile.originalName,
     archivo |-> insertFile.archivo,
     uploadedBy |-> insertFile.uploadedBy,
     uploadedAt |-> t,
     version |-> createFileVersion(fs, insertFile.previousVersionId),
     previousVersionId |-> insertFile.previousVersionId,
     isDeleted |-> FALSE,
     deletedAt |-> Null,
     deletedBy |-> Null]

\* the row createFile inserts and returns: id and uploaded_at from the
\* column defaults, version computed, is_deleted false
createFile(fs, insertFile, id, t) ==
    [id |-> id,
     contractId |-> insertFile.contractId,
     supplier |-> insertFile.supplier,
     folderId |-> insertFile.folderId,
     originalName |-> insertFile.originalName,
     archivo |-> insertFile.archivo,
     uploadedBy |-> insertFile.uploadedBy,
     uploadedAt |-> t,
     version |-> createFileVersion(fs, insertFile.previousVersionId),
     previousVersionId |-> insertFile.previousVersionId,
     isDeleted |-> FALSE,
     deletedAt |-> Null,
     deletedBy |-> Null]

\* updateFile whose UPDATE matches no row
updateFileVersionNoRow(fs, id, version) == fs

updateFileVersion(fs, id, version) ==
    {IF f.id = id THEN [f EXCEPT !.version = version] ELSE f : f \in fs}

updateFileFolder(fs, id, folderId) ==
    {IF f.id = id THEN [f EXCEPT !.folderId = folderId] ELSE f : f \in fs}

\* deleteFile whose UPDATE matches no row
deleteFileNoRow(fs, id, deletedBy, t) == fs

deleteFile(fs, id, deletedBy, t) ==
    {IF f.id = id
     THEN [f EXCEPT !.isDeleted = TRUE, !.deletedAt = t, !.deletedBy = deletedBy]
     ELSE f : f \in fs}

removeFilePermanently(fs, id) == {f \in fs : f.id # id}

\* ---------------------------------------------------- DatabaseStorage: folders
getFolderById(fds, id) == {d \in fds : d.id = id}

\* the while loop of getFolderPath: `current` is the row just fetched, `path` the
\* rows collected so far.  The table is not written during the walk, so a walk
\* that takes more steps than there are rows has met a row twice and never ends.
RECURSIVE getFolderPathLoop(_, _, _, _)
getFolderPathLoop(fds, current, path, fuel) ==
    IF current = {} THEN [terminates |-> TRUE, path |-> path]
    ELSE LET row == CHOOSE d \in current : TRUE
             unshifted == <<row>> \o path
         IN IF row.parentId = Null THEN [terminates |-> TRUE, path |-> unshifted]
            ELSE IF fuel = 0 THEN [terminates |-> FALSE, path |-> unshifted]
            ELSE getFolderPathLoop(fds, getFolderById(fds, row.parentId),
                                   unshifted, fuel - 1)

\* getFolderPath: whether the call returns, and the path it returns
getFolderPath(fds, folderId) ==
    getFolderPathLoop(fds, getFolderById(fds, folderId), <<>>, Cardinality(fds))

getRootFolders(fds) == {d \in fds : d.parentId = Null}

getFoldersByParent(fds, parentId) == {d \in fds : d.parentId = parentId}

createFolder(insertFolder, id) ==
    [id |-> id,
     name |-> insertFolder.name,
     parentId |-> insertFolder.parentId,
     userId |-> insertFolder.userId]

updateFolder(fds, id, name) ==
    {IF d.id = id THEN [d EXCEPT !.name = name] ELSE d : d \in fds}

deleteFolder(fds, id) == {d \in fds : d.id # id}

\* ------------------------------------------------------ DatabaseStorage: audit
\* createAuditLog writing over the last row instead of inserting
createAuditLogOverwriting(logs, userId, action, resourceType, resourceId, details) ==
    LET row == [id |-> Len(logs) + 1, userId |-> userId, action |-> action,
                resourceType |-> resourceType, resourceId |-> resourceId,
                details |-> details]
    IN IF logs = <<>> THEN <<row>> ELSE [logs EXCEPT ![Len(logs)] = row]

\* createAuditLog inserting the row twice
createAuditLogTwice(logs, userId, action, resourceType, resourceId, details) ==
    LET row == [id |-> Len(logs) + 1, userId |-> userId, action |-> action,
                resourceType |-> resourceType, resourceId |-> resourceId,
                details |-> details]
    IN logs \o <<row, row>>

\* `details` is free text: the model keeps the file count or the user name it
\* reports, or Null
createAuditLog(logs, userId, action, resourceType, resourceId, details) ==
    Append(logs, [id |-> Len(logs) + 1,
                  userId |-> userId,
                  action |-> action,
                  resourceType |-> resourceType,
                  resourceId |-> resourceId,
                  details |-> details])

\* ------------------------------------------------------- DatabaseStorage: users
getUser(us, id) == {u \in us : u.id = id}

getUserByUsername(us, username) == {u \in us : u.username = username}

\* UPDATE users SET data WHERE id = id: the columns named in data are written
updateUser(us, id, data) ==
    {IF u.id = id
     THEN [c \in DOMAIN u |-> IF c \in DOMAIN data THEN data[c] ELSE u[c]]
     ELSE u : u \in us}

\* the accounts: the seeded administrator and one user created by them.  The
\* password column holds a salted hash; a row keeps the password it is the hash of.
SeedUsers ==
    {[id |-> 1, username |-> "admin", password |-> "admin123", isAdmin |-> TRUE,
      isActive |-> TRUE, failedLoginAttempts |-> 0, lockedUntil |-> Null,
      lastLogin |-> Null],
     [id |-> 2, username |-> "user", password |-> "secret", isAdmin |-> FALSE,
      isActive |-> TRUE, failedLoginAttempts |-> 0, lockedUntil |-> Null,
      lastLogin |-> Null]}

\* ------------------------------------------------------- requests in flight
\* the requests whose handler is suspended at an await
CallIds == {1, 2}

IdleCall == [pc |-> "idle"]

NoCalls == [c \in CallIds |-> IdleCall]

\* -------------------------------------------------------------------- Init
\* GET /api/backup not running: no archive open, nothing to log
NoBackup == [pc |-> "idle", user |-> Null, archive |-> {}, latestCount |-> 0]

Init ==
    /\ files = {}
    /\ folders = {}
    /\ auditLogs = <<>>
    /\ nextFileId = 1
    /\ nextFolderId = 1
    /\ now = 1
    /\ policy \in Policies
    /\ response = [status |-> 0, body |-> {}]
    /\ backup = NoBackup
    /\ users = SeedUsers
    /\ calls = NoCalls

Tick ==
    /\ now < MaxTime
    /\ now' = now + 1
    /\ UNCHANGED <<files, folders, auditLogs, nextFileId, nextFolderId, policy, response, backup, users, calls>>

\* ------------------------------------------------------------ route helpers
Admins == {1}

Reply(status, body) ==
    response' = [status |-> status, body |-> body]

\* an early return, or a catch that answers 500: no table is written
Reject(status) ==
    /\ Reply(status, {})
    /\ UNCHANGED <<files, folders, auditLogs, nextFileId, nextFolderId, now, policy, backup, users, calls>>

CanAudit == Len(auditLogs) < MaxAudit

\* ------------------------------------------------------------ folder routes
\* POST /api/folders
PostFolders(user, name, parentId) ==
    LET trimmedName == trim(name)
        sanitizedName == sanitizeFolderName(trimmedName)
        folder == createFolder([name |-> sanitizedName, parentId |-> parentId,
                                userId |-> user], nextFolderId)
    IN IF name = <<>> THEN Reject(400)
       ELSE IF Len(trimmedName) = 0 THEN Reject(400)
       ELSE IF Len(trimmedName) > MaxFolderNameLen
            THEN Reject(400)
       ELSE IF Len(sanitizedName) = 0 THEN Reject(400)
       ELSE /\ nextFolderId <= MaxFolderId
            /\ CanAudit
            /\ folders' = folders \cup {folder}
            /\ nextFolderId' = nextFolderId + 1
            /\ auditLogs' = createAuditLog(auditLogs, user, "folder_created", "folder", folder.id, Null)
            /\ Reply(201, {folder})
            /\ UNCHANGED <<files, nextFileId, now, policy, backup, users, calls>>

\* PATCH /api/folders/:id
PatchFolder(user, folderId, name) ==
    LET trimmedName == trim(name)
        sanitizedName == sanitizeFolderName(trimmedName)
        folder == getFolderById(folders, folderId)
        updated == updateFolder(folders, folderId, sanitizedName)
    IN IF folderId <= 0 THEN Reject(400)
       ELSE IF name = <<>> THEN Reject(400)
       ELSE IF Len(trimmedName) = 0 THEN Reject(400)
       ELSE IF Len(trimmedName) > MaxFolderNameLen
            THEN Reject(400)
       ELSE IF Len(sanitizedName) = 0 THEN Reject(400)
       ELSE IF folder = {} THEN Reject(404)
       ELSE /\ CanAudit
            /\ folders' = updated
            /\ auditLogs' = createAuditLog(auditLogs, user, "folder_renamed", "folder", folderId, Null)
            /\ Reply(200, getFolderById(updated, folderId))
            /\ UNCHANGED <<files, nextFileId, nextFolderId, now, policy, backup, users, calls>>

\* DELETE /api/folders/:id
DeleteFolderRoute(user, id) ==
    LET folder == getFolderById(folders, id)
    IN IF id <= 0 THEN Reject(400)
       ELSE IF folder = {} THEN Reject(404)
       ELSE /\ CanAudit
            /\ folders' = deleteFolder(folders, id)
            /\ auditLogs' = createAuditLog(auditLogs, user, "folder_deleted", "folder", id, Null)
            /\ Reply(204, {})
            /\ UNCHANGED <<files, nextFileId, nextFolderId, now, policy, backup, users, calls>>

\* DELETE /api/folders/:id of src/server/routes.ts: no lookup, no audit row
DeleteFolderRouteOlder(user, id) ==
    /\ folders' = deleteFolder(folders, id)
    /\ Reply(204, {})
    /\ UNCHANGED <<files, auditLogs, nextFileId, nextFolderId, now, policy, backup, users, calls>>

\* -------------------------------------------------------------- file routes
\* the upload handler without its availability check
duplicateContractIdUnchecked(fs, contractId) == FALSE

\* the upload handler's availability check: `if (existingFile) return 409`
duplicateContractId(fs, contractId) == getFileByContractId(fs, contractId) # {}

\* POST /api/files/upload
PostFilesUpload(user, hasFile, contractId, supplier, folderId) ==
    LET file == createFile(files,
                           [contractId |-> trim(contractId),
                            supplier |-> trim(supplier),
                            folderId |-> IF folderId # Null THEN folderId ELSE Null,
                            originalName |-> UploadedName,
                            archivo |-> UploadedBuffer,
                            uploadedBy |-> user,
                            previousVersionId |-> Null],
                           nextFileId, now)
    IN IF ~hasFile THEN Reject(400)
       ELSE IF contractId = <<>> \/ Len(trim(contractId)) = 0
            THEN Reject(400)
       ELSE IF supplier = <<>> \/ Len(trim(supplier)) = 0
            THEN Reject(400)
       ELSE IF duplicateContractId(files, contractId) THEN Reject(409)
       ELSE /\ nextFileId <= MaxFileId
            /\ CanAudit
            /\ nextFileId' = nextFileId + 1
            /\ files' = files \cup {file}
            /\ auditLogs' = createAuditLog(auditLogs, user, "upload", "file", file.id, Null)
            /\ Reply(201, {file})
            /\ UNCHANGED <<folders, nextFolderId, now, policy, backup, users, calls>>

\* POST /api/files/:id/version, src/shared/schema.ts: the new row is not linked
\* and the previous row is removed
PostFileVersionPurge(user, hasFile, fileId) ==
    LET existing == getFile(files, fileId)
        existingFile == CHOOSE f \in existing : TRUE
        newFile == createFile(files,
                              [contractId |-> existingFile.contractId,
                               supplier |-> existingFile.supplier,
                               folderId |-> existingFile.folderId,
                               originalName |-> UploadedName,
                               archivo |-> UploadedBuffer,
                               uploadedBy |-> user,
                               previousVersionId |-> Null],
                              nextFileId, now)
        created == files \cup {newFile}
        versioned == updateFileVersion(created, newFile.id,
                        (IF existingFile.version # 0 THEN existingFile.version ELSE 1) + 1)
        removed == removeFilePermanently(versioned, existingFile.id)
    IN IF existing = {} THEN Reject(404)
       ELSE IF ~hasFile THEN Reject(400)
       ELSE /\ nextFileId <= MaxFileId
            /\ CanAudit
            /\ nextFileId' = nextFileId + 1
            /\ files' = removed
            /\ auditLogs' = createAuditLog(auditLogs, user, "replacement", "file", newFile.id, Null)
            /\ Reply(201, {newFile})
            /\ UNCHANGED <<folders, nextFolderId, now, policy, backup, users, calls>>

\* POST /api/files/:id/version, src/server/routes.ts: the new row is linked to
\* the previous one, which is left as it is
PostFileVersionLink(user, hasFile, fileId) ==
    LET existing == getFile(files, fileId)
        existingFile == CHOOSE f \in existing : TRUE
        newFile == createFile(files,
                              [contractId |-> existingFile.contractId,
                               supplier |-> existingFile.supplier,
                               folderId |-> existingFile.folderId,
                               originalName |-> UploadedName,
                               archivo |-> NoBuffer,
                               uploadedBy |-> user,
                               previousVersionId |-> existingFile.id],
                              nextFileId, now)
    IN IF existing = {} THEN Reject(404)
       ELSE IF existingFile.uploadedBy # user /\ user \notin Admins
            THEN Reject(403)
       ELSE IF ~hasFile THEN Reject(400)
       ELSE /\ nextFileId <= MaxFileId
            /\ CanAudit
            /\ nextFileId' = nextFileId + 1
            /\ files' = files \cup {newFile}
            /\ auditLogs' = createAuditLog(auditLogs, user, "upload_version", "file", newFile.id, Null)
            /\ Reply(201, {newFile})
            /\ UNCHANGED <<folders, nextFolderId, now, policy, backup, users, calls>>

\* POST /api/files/:id/version, the oldest routes file: the new row is linked
\* to the previous one, which is soft-deleted.  The handler passes no supplier
\* and no folderId: the row gets the column defaults.
PostFileVersionLinkSoftDelete(user, hasFile, fileId) ==
    LET existing == getFile(files, fileId)
        existingFile == CHOOSE f \in existing : TRUE
        newFile == createFile(files,
                              [contractId |-> existingFile.contractId,
                               supplier |-> <<>>,
                               folderId |-> Null,
                               originalName |-> UploadedName,
                               archivo |-> NoBuffer,
                               uploadedBy |-> user,
                               previousVersionId |-> existingFile.id],
                              nextFileId, now)
        created == files \cup {newFile}
        versioned == updateFileVersion(created, newFile.id, existingFile.version + 1)
        deleted == deleteFile(versioned, existingFile.id, user, now)
    IN IF existing = {} THEN Reject(404)
       ELSE IF existingFile.uploadedBy # user /\ user \notin Admins
            THEN Reject(403)
       ELSE IF ~hasFile THEN Reject(400)
       ELSE /\ nextFileId <= MaxFileId
            /\ CanAudit
            /\ nextFileId' = nextFileId + 1
            /\ files' = deleted
            /\ auditLogs' = createAuditLog(auditLogs, user, "upload", "file", newFile.id, Null)
            /\ Reply(201, getFile(deleted, newFile.id))
            /\ UNCHANGED <<folders, nextFolderId, now, policy, backup, users, calls>>

\* PATCH /api/files/:id/move
PatchFileMove(user, fileId, folderId) ==
    LET file == getFile(files, fileId)
        targetFolder == getFolderById(folders, folderId)
    IN IF fileId <= 0 THEN Reject(400)
       ELSE IF folderId = Null THEN Reject(400)
       ELSE IF folderId <= 0 THEN Reject(400)
       ELSE IF file = {} THEN Reject(404)
       ELSE IF targetFolder = {} THEN Reject(404)
       ELSE /\ CanAudit
            /\ files' = updateFileFolder(files, fileId, folderId)
            /\ auditLogs' = createAuditLog(auditLogs, user, "move", "file", fileId, Null)
            /\ Reply(200, {})
            /\ UNCHANGED <<folders, nextFileId, nextFolderId, now, policy, backup, users, calls>>

\* DELETE /api/files/:id
DeleteFileRoute(user, fileId) ==
    LET file == getFile(files, fileId)
    IN IF fileId <= 0 THEN Reject(400)
       ELSE IF file = {} THEN Reject(404)
       ELSE /\ CanAudit
            /\ files' = deleteFile(files, fileId, user, now)
            /\ auditLogs' = createAuditLog(auditLogs, user, "delete", "file", fileId, Null)
            /\ Reply(204, {})
            /\ UNCHANGED <<folders, nextFileId, nextFolderId, now, policy, backup, users, calls>>

\* -------------------------------------------------------------------- Next
\* the names the handlers accept, and one name for each early return
FolderNameInputs == {<<"r">>, <<" ", "/">>}

RejectedFolderNames == {<<" ">>, <<>>, [i \in 1..(MaxFolderNameLen + 1) |-> "a"]}

CreateFolderStep ==
    \/ \E u \in Admins, n \in FolderNameInputs, p \in FolderIdInputs : PostFolders(u, n, p)
    \/ \E u \in Admins, n \in RejectedFolderNames : PostFolders(u, n, Null)

RenameFolderStep ==
    \/ \E u \in Admins, d \in FolderIdInputs, n \in FolderNameInputs : PatchFolder(u, d, n)
    \/ \E u \in Admins, n \in RejectedFolderNames : PatchFolder(u, 1, n)

\* the routes.ts generation mounts its own DELETE /api/folders/:id
DeleteFolderStep == /\ policy # "link"
                    /\ \E u \in Admins, d \in FolderIdInputs : DeleteFolderRoute(u, d)

DeleteFolderOlderStep == /\ policy = "link"
                         /\ \E u \in Admins, d \in FolderIdInputs :
                               DeleteFolderRouteOlder(u, d)

\* the well-formed upload requests, and one request for each early return
ContractIdInputs == {<<"A">>, <<" ", "A">>, <<"B">>}

UploadRequests ==
    [user : Users, hasFile : {TRUE}, contractId : ContractIdInputs,
     supplier : {<<"s">>}, folderId : FolderIdInputs]
    \cup [user : {2}, hasFile : {FALSE}, contractId : {<<"A">>},
          supplier : {<<"s">>}, folderId : {Null}]
    \cup [user : {2}, hasFile : {TRUE}, contractId : {<<" ">>, <<>>},
          supplier : {<<"s">>}, folderId : {Null}]
    \cup [user : {2}, hasFile : {TRUE}, contractId : {<<"A">>},
          supplier : {<<" ">>, <<>>}, folderId : {Null}]

UploadStep == \E r \in UploadRequests :
                  PostFilesUpload(r.user, r.hasFile, r.contractId, r.supplier, r.folderId)

ReplacePurgeStep == /\ policy = "purge"
                    /\ \E u \in Users, h \in BOOLEAN, f \in FileIdInputs :
                          PostFileVersionPurge(u, h, f)

ReplaceLinkStep == /\ policy = "link"
                   /\ \E u \in Users, h \in BOOLEAN, f \in FileIdInputs :
                         PostFileVersionLink(u, h, f)

ReplaceLinkSoftDeleteStep == /\ policy = "linkSoftDelete"
                             /\ \E u \in Users, h \in BOOLEAN, f \in FileIdInputs :
                                   PostFileVersionLinkSoftDelete(u, h, f)

MoveStep == \E u \in Admins, f \in FileIdInputs, d \in FolderIdInputs :
                PatchFileMove(u, f, d)

DeleteFileStep == \E u \in Admins, f \in FileIdInputs : DeleteFileRoute(u, f)

Next ==
    \/ Tick
    \/ CreateFolderStep
    \/ RenameFolderStep
    \/ DeleteFolderStep
    \/ DeleteFolderOlderStep
    \/ UploadStep
    \/ ReplacePurgeStep
    \/ ReplaceLinkStep
    \/ ReplaceLinkSoftDeleteStep
    \/ MoveStep
    \/ DeleteFileStep

Spec == Init /\ [][Next]_vars

\* ------------------------------------------- direct calls of DatabaseStorage
\* storage.createFile called on its own, as the maintenance scripts do
StorageCreateFile(insertFile) ==
    LET file == createFile(files, insertFile, nextFileId, now)
    IN /\ nextFileId <= MaxFileId
       /\ files' = files \cup {file}
       /\ nextFileId' = nextFileId + 1
       /\ Reply(0, {file})
       /\ UNCHANGED <<folders, auditLogs, nextFolderId, now, policy, backup, users, calls>>

InsertFiles ==
    [contractId : {<<"t", "e", "s", "t">>}, supplier : {<<"t", "e", "s", "t">>},
     folderId : {Null}, originalName : {UploadedName}, archivo : {NoBuffer},
     uploadedBy : {1}, previousVersionId : FileIdInputs]

StorageCreateFileStep == \E i \in InsertFiles : StorageCreateFile(i)

\* storage.deleteFile called on its own: an UPDATE that matches no row changes nothing
StorageDeleteFile(id, deletedBy) ==
    /\ files' = deleteFile(files, id, deletedBy, now)
    /\ Reply(0, {})
    /\ UNCHANGED <<folders, auditLogs, nextFileId, nextFolderId, now, policy, backup, users, calls>>

StorageDeleteFileStep == \E f \in FileIdInputs, u \in Users : StorageDeleteFile(f, u)

NextStorage ==
    \/ Tick
    \/ StorageCreateFileStep
    \/ StorageDeleteFileStep

SpecStorage == Init /\ [][NextStorage]_vars

\* ------------------------------------------------------------ GET /api/backup
\* active rows uploaded within [startDate, endDate]
getFilesByDateRange(fs, startDate, endDate) ==
    {f \in fs : ~f.isDeleted /\ startDate <= f.uploadedAt /\ f.uploadedAt <= endDate}

\* latestFiles without its filter
latestFilesUnfiltered(fileList) == fileList

\* fileList.filter(f => !fileList.some(o => o.previousVersionId === f.id))
latestFiles(fileList) ==
    {f \in fileList : ~ \E o \in fileList : o.previousVersionId = f.id}

\* pathParts.join("/")
RECURSIVE join(_)
join(pathParts) ==
    IF Len(pathParts) = 0 THEN <<>>
    ELSE IF Len(pathParts) = 1 THEN pathParts[1]
    ELSE pathParts[1] \o <<"/">> \o join(Tail(pathParts))

\* entryPath with the folder names in leaf-to-root order
entryPathReversed(fds, file) ==
    LET folderPath == getFolderPath(fds, file.folderId).path
        n == Len(folderPath)
    IN IF file.folderId # Null /\ n > 0
       THEN join(Append([i \in 1..n |-> folderPath[n + 1 - i].name], file.originalName))
       ELSE file.originalName

\* the name of the archive entry of a file
entryPath(fds, file) ==
    LET folderPath == getFolderPath(fds, file.folderId).path
    IN IF file.folderId # Null /\ Len(folderPath) > 0
       THEN join(Append([i \in 1..Len(folderPath) |-> folderPath[i].name],
                        file.originalName))
       ELSE file.originalName

\* startDate and endDate of the request.  The clock of the model stays within
\* one month, so "month" (and the default) starts at the first instant, 1, and
\* "lastYear" ends before it; a custom range is taken as given.
backupStartDate(range, startParam) ==
    IF range = "custom" THEN startParam ELSE IF range = "lastYear" THEN Null ELSE 1

backupEndDate(range, endParam, t) ==
    IF range = "custom" THEN endParam ELSE IF range = "lastYear" THEN Null ELSE t

\* the rows the loop appends: it skips a row that holds no buffer
appendedFiles(latest) == {f \in latest : f.archivo # NoBuffer}

\* GET /api/backup up to `await archive.finalize()`: one entry is appended per
\* latest file that holds a buffer.  `source` tells the append calls apart.
\* A getFolderPath call that never returns keeps the handler in its loop.
GetBackupArchive(user, range, startParam, endParam) ==
    LET fileList == getFilesByDateRange(files, backupStartDate(range, startParam),
                                        backupEndDate(range, endParam, now))
        latest == latestFiles(fileList)
        archive == {[source |-> f.id, name |-> entryPath(folders, f), data |-> f.archivo]
                       : f \in appendedFiles(latest)}
    IN /\ backup.pc = "idle"
       /\ IF range = "custom" /\ (startParam = Null \/ endParam = Null)
          THEN Reject(400)
          ELSE /\ \A f \in appendedFiles(latest) :
                     f.folderId # Null => getFolderPath(folders, f.folderId).terminates
               /\ backup' = [pc |-> "finalized", user |-> user, archive |-> archive,
                             latestCount |-> Cardinality(latest)]
               /\ Reply(200, archive)
               /\ UNCHANGED <<files, folders, auditLogs, nextFileId, nextFolderId, now,
                              policy, users, calls>>

\* GET /api/backup after `await archive.finalize()`: the backup_executed row
GetBackupAudit ==
    /\ backup.pc = "finalized"
    /\ CanAudit
    /\ auditLogs' = createAuditLog(auditLogs, backup.user, "backup_executed", "backup",
                                   Null, backup.latestCount)
    /\ backup' = NoBackup
    /\ UNCHANGED <<files, folders, nextFileId, nextFolderId, now, policy, response, users, calls>>

\* storage.createFolder called on its own, as the maintenance scripts do
StorageCreateFolder(insertFolder) ==
    /\ nextFolderId <= MaxBackupFolderId
    /\ folders' = folders \cup {createFolder(insertFolder, nextFolderId)}
    /\ nextFolderId' = nextFolderId + 1
    /\ UNCHANGED <<files, auditLogs, nextFileId, now, policy, response, backup, users, calls>>

BackupInsertFolders ==
    [name : {<<"R">>}, parentId : {Null}, userId : {1}]
    \cup [name : {<<"S">>}, parentId : {Null, 1}, userId : {1}]

BackupInsertFiles ==
    [contractId : {<<"A">>}, supplier : {<<"s">>}, folderId : {Null, 2},
     originalName : {UploadedName}, archivo : {NoBuffer, UploadedBuffer},
     uploadedBy : {1}, previousVersionId : {Null, 1}]

\* the requests: every custom range, one without its end, month and lastYear
BackupRequests ==
    [range : {"custom"}, start : 1..MaxTime, end : 1..MaxTime]
    \cup [range : {"custom"}, start : {1}, end : {Null}]
    \cup [range : {"month", "lastYear"}, start : {Null}, end : {Null}]

BackupCreateFolderStep == \E i \in BackupInsertFolders : StorageCreateFolder(i)

BackupCreateFileStep == /\ nextFileId <= MaxBackupFileId
                        /\ \E i \in BackupInsertFiles : StorageCreateFile(i)

BackupDeleteFileStep == StorageDeleteFile(1, 1)

BackupArchiveStep ==
    \E u \in Admins, r \in BackupRequests : GetBackupArchive(u, r.range, r.start, r.end)

BackupAuditStep == Len(auditLogs) < MaxBackupAudit /\ GetBackupAudit

NextBackup ==
    \/ Tick
    \/ BackupCreateFolderStep
    \/ BackupCreateFileStep
    \/ BackupDeleteFileStep
    \/ BackupArchiveStep
    \/ BackupAuditStep

\* GET /api/backup is a route of the src/shared/schema.ts generation only
InitBackup == Init /\ policy = "purge"

SpecBackup == InitBackup /\ [][NextBackup]_vars

\* ---------------------------------------- handlers whose audit write fails
\* DELETE /api/folders/:id when createAuditLog throws: the folder row is already
\* deleted, the exception reaches the handler's catch, which answers 500
DeleteFolderRouteAuditFails(user, id) ==
    /\ id > 0
    /\ getFolderById(folders, id) # {}
    /\ folders' = deleteFolder(folders, id)
    /\ Reply(500, {"Error al eliminar carpeta"})
    /\ UNCHANGED <<files, auditLogs, nextFileId, nextFolderId, now, policy, backup, users, calls>>

\* a DELETE that threw although its row is gone
deleteFolderThrowsAfterDelete(fds, id) == deleteFolder(fds, id)

\* the folders table after a DELETE that threw: the statement has no effect
deleteFolderThrows(fds, id) == fds

\* DELETE /api/folders/:id when storage.deleteFolder throws: the exception
\* reaches the handler's catch, which answers 500; createAuditLog is not called
DeleteFolderRouteDeleteFails(user, id) ==
    /\ id > 0
    /\ getFolderById(folders, id) # {}
    /\ folders' = deleteFolderThrows(folders, id)
    /\ Reply(500, {"Error al eliminar carpeta"})
    /\ UNCHANGED <<files, auditLogs, nextFileId, nextFolderId, now, policy, backup, users,
                   calls>>

\* POST /api/files/upload when createAuditLog throws: the row is already
\* inserted, the inner catch sees no unique violation and answers 500
PostFilesUploadAuditFails(user, contractId, supplier, folderId) ==
    LET file == createFile(files,
                           [contractId |-> trim(contractId),
                            supplier |-> trim(supplier),
                            folderId |-> IF folderId # Null THEN folderId ELSE Null,
                            originalName |-> UploadedName,
                            archivo |-> UploadedBuffer,
                            uploadedBy |-> user,
                            previousVersionId |-> Null],
                           nextFileId, now)
    IN /\ Len(trim(contractId)) > 0
       /\ Len(trim(supplier)) > 0
       /\ ~duplicateContractId(files, contractId)
       /\ nextFileId <= MaxFileId
       /\ nextFileId' = nextFileId + 1
       /\ files' = files \cup {file}
       /\ Reply(500, {})
       /\ UNCHANGED <<folders, auditLogs, nextFolderId, now, policy, backup, users, calls>>

\* GET /api/files/:id/download: the payload is sent first, the audit write has
\* a try/catch of its own
GetFileDownload(user, fileId, auditFails) ==
    LET found == getFile(files, fileId)
        file == CHOOSE f \in found : TRUE
    IN IF found = {} THEN Reject(404)
       ELSE IF file.archivo = NoBuffer THEN Reject(404)
       ELSE /\ auditFails \/ CanAudit
            /\ auditLogs' = IF auditFails THEN auditLogs
                            ELSE createAuditLog(auditLogs, user, "download", "file",
                                                file.id, Null)
            /\ Reply(200, {file})
            /\ UNCHANGED <<files, folders, nextFileId, nextFolderId, now, policy, backup, users, calls>>

DeleteFolderAuditFailsStep ==
    \E u \in Admins, d \in FolderIdInputs : DeleteFolderRouteAuditFails(u, d)

DeleteFolderDeleteFailsStep ==
    \E u \in Admins, d \in FolderIdInputs : DeleteFolderRouteDeleteFails(u, d)

UploadAuditFailsStep ==
    \E d \in FolderIdInputs : PostFilesUploadAuditFails(2, <<"B">>, <<"s">>, d)

DownloadStep ==
    \E u \in Users, f \in FileIdInputs, a \in BOOLEAN : GetFileDownload(u, f, a)

NextAuditFault ==
    \/ Tick
    \/ CreateFolderStep
    \/ DeleteFolderAuditFailsStep
    \/ DeleteFolderDeleteFailsStep
    \/ UploadAuditFailsStep
    \/ DownloadStep

SpecAuditFault == Init /\ [][NextAuditFault]_vars

\* ------------------------------------------------------------ POST /api/login
MAX_FAILED_ATTEMPTS == 5

\* 15 minutes, in ticks of the clock
LOCK_DURATION == 2

\* the stored hash is the hash of the supplied password
comparePasswords(supplied, stored) == supplied = stored

\* `user.lockedUntil && new Date(user.lockedUntil) > new Date()`
isLocked(user, t) == user.lockedUntil # Null /\ user.lockedUntil > t

\* the lock that is never set
lockedUntilNever(newAttempts, t) == Null

\* the lockedUntil written after a wrong password
lockedUntil(newAttempts, t) ==
    IF newAttempts >= MAX_FAILED_ATTEMPTS THEN t + LOCK_DURATION ELSE Null

\* the LocalStrategy verify callback: the users table it leaves, the user it
\* hands to done() (none for `false`) and the message
verify(us, username, password, t) ==
    LET found == getUserByUsername(us, username)
        user == CHOOSE u \in found : TRUE
        newAttempts == user.failedLoginAttempts + 1
    IN IF found = {}
       THEN [users |-> us, user |-> {}, message |-> "Usuario no encontrado"]
       ELSE IF isLocked(user, t)
       THEN [users |-> us, user |-> {}, message |-> "Cuenta bloqueada temporalmente"]
       ELSE IF ~user.isActive
       THEN [users |-> us, user |-> {}, message |-> "Cuenta desactivada"]
       ELSE IF ~comparePasswords(password, user.password)
       THEN [users |-> updateUser(us, user.id,
                          [failedLoginAttempts |-> newAttempts,
                           lockedUntil |-> lockedUntil(newAttempts, t)]),
             user |-> {}, message |-> "Contrasena incorrecta"]
       ELSE [users |-> updateUser(us, user.id,
                          [failedLoginAttempts |-> 0, lockedUntil |-> Null,
                           lastLogin |-> t]),
             user |-> found, message |-> "ok"]

CanAuditLogin == Len(auditLogs) < MaxAuthAudit

\* POST /api/login: verify, then the audit row and the answer
PostLogin(username, password) ==
    LET result == verify(users, username, password, now)
        existingUser == getUserByUsername(result.users, username)
    IN /\ CanAuditLogin
       /\ users' = result.users
       /\ IF result.user = {}
          THEN /\ auditLogs' = createAuditLog(auditLogs, Null, "login_failed", "session",
                                              Null, username)
               /\ IF \E u \in existingUser : isLocked(u, now)
                  THEN Reply(423, {})
                  ELSE Reply(401, {result.message})
          ELSE /\ auditLogs' = createAuditLog(auditLogs,
                                              (CHOOSE u \in result.user : TRUE).id,
                                              "login", "session", Null, Null)
               /\ Reply(200, result.user)
       /\ UNCHANGED <<files, folders, nextFileId, nextFolderId, now, policy, backup, calls>>

\* PATCH /api/users/:id with a body that holds isActive only
PatchUser(admin, userId, isActive) ==
    LET existingUser == getUser(users, userId)
        updated == updateUser(users, userId, [isActive |-> isActive])
    IN IF existingUser = {}
       THEN /\ Reply(404, {})
            /\ UNCHANGED <<files, folders, auditLogs, nextFileId, nextFolderId, now, policy,
                           backup, users, calls>>
       ELSE /\ CanAuditLogin
            /\ users' = updated
            /\ auditLogs' = createAuditLog(auditLogs, admin, "user_updated", "user",
                                           userId, Null)
            /\ Reply(200, getUser(updated, userId))
            /\ UNCHANGED <<files, folders, nextFileId, nextFolderId, now, policy, backup,
                           calls>>

AuthTick ==
    /\ now < MaxAuthTime
    /\ now' = now + 1
    /\ UNCHANGED <<files, folders, auditLogs, nextFileId, nextFolderId, policy, response,
                   backup, users, calls>>

\* the credentials: the user's name with the right and a wrong password, and
\* a name that no account has
LoginRequests ==
    [username : {"user"}, password : {"secret", "wrong"}]
    \cup [username : {"nobody"}, password : {"wrong"}]

LoginStep == \E r \in LoginRequests : PostLogin(r.username, r.password)

PatchUserStep == \E a \in BOOLEAN, id \in {2, 3} : PatchUser(1, id, a)

NextAuth ==
    \/ AuthTick
    \/ LoginStep
    \/ PatchUserStep

InitAuth == Init /\ policy = "purge"

SpecAuth == InitAuth /\ [][NextAuth]_vars

\* ------------------------------------------- POST /api/files/upload, in two steps
\* the files table with a unique index on contract_id
insertViolatesUniqueContractId(fs, insertFile) ==
    \E f \in fs : f.contractId = insertFile.contractId

\* whether the INSERT of createFile raises a unique violation (code 23505): the
\* files table has no unique constraint but its primary key
insertViolatesUnique(fs, insertFile) == FALSE

\* POST /api/files/upload up to the answer of `await storage.getFileByContractId`:
\* the early returns, or the request suspended with the check passed
PostFilesUploadCheck(c, user, hasFile, contractId, supplier, folderId) ==
    /\ calls[c].pc = "idle"
    /\ IF ~hasFile THEN Reject(400)
       ELSE IF contractId = <<>> \/ Len(trim(contractId)) = 0 THEN Reject(400)
       ELSE IF supplier = <<>> \/ Len(trim(supplier)) = 0 THEN Reject(400)
       ELSE IF duplicateContractId(files, contractId) THEN Reject(409)
       ELSE /\ calls' = [calls EXCEPT ![c] =
                            [pc |-> "uploadChecked", user |-> user,
                             contractId |-> contractId, supplier |-> supplier,
                             folderId |-> folderId]]
            /\ UNCHANGED <<files, folders, auditLogs, nextFileId, nextFolderId, now, policy,
                           response, backup, users>>

\* POST /api/files/upload from `await storage.createFile` on
PostFilesUploadInsert(c) ==
    LET req == calls[c]
        insertFile == [contractId |-> trim(req.contractId),
                       supplier |-> trim(req.supplier),
                       folderId |-> IF req.folderId # Null THEN req.folderId ELSE Null,
                       originalName |-> UploadedName,
                       archivo |-> UploadedBuffer,
                       uploadedBy |-> req.user,
                       previousVersionId |-> Null]
        file == createFile(files, insertFile, nextFileId, now)
    IN /\ calls[c].pc = "uploadChecked"
       /\ calls' = [calls EXCEPT ![c] = IdleCall]
       /\ IF insertViolatesUnique(files, insertFile)
          THEN /\ Reply(409, {})
               /\ UNCHANGED <<files, folders, auditLogs, nextFileId, nextFolderId, now,
                              policy, backup, users>>
          ELSE /\ nextFileId <= MaxFileId
               /\ CanAudit
               /\ nextFileId' = nextFileId + 1
               /\ files' = files \cup {file}
               /\ auditLogs' = createAuditLog(auditLogs, req.user, "upload", "file",
                                              file.id, Null)
               /\ Reply(201, {file})
               /\ UNCHANGED <<folders, nextFolderId, now, policy, backup, users>>

\* two contractIds, one request without a file
UploadRaceRequests ==
    [user : {2}, hasFile : {TRUE}, contractId : {<<"A">>, <<"B">>},
     supplier : {<<"s">>}, folderId : {Null}]
    \cup [user : {2}, hasFile : {FALSE}, contractId : {<<"A">>},
          supplier : {<<"s">>}, folderId : {Null}]

UploadCheckStep ==
    \E c \in CallIds, r \in UploadRaceRequests :
        PostFilesUploadCheck(c, r.user, r.hasFile, r.contractId, r.supplier, r.folderId)

UploadInsertStep == \E c \in CallIds : PostFilesUploadInsert(c)

NextUploadRace ==
    \/ Tick
    \/ UploadCheckStep
    \/ UploadInsertStep
    \/ DeleteFileStep

InitUploadRace == Init /\ policy = "purge"

SpecUploadRace == InitUploadRace /\ [][NextUploadRace]_vars

\* --------------------------------------- DELETE /api/folders/:id, in two steps
\* x lies in the subtree of folder d: d is x or one of x's ancestors
RECURSIVE InSubtree(_, _, _, _)
InSubtree(fds, x, d, fuel) ==
    \/ x = d
    \/ /\ fuel > 0
       /\ \E row \in fds : /\ row.id = x
                           /\ row.parentId # Null
                           /\ InSubtree(fds, row.parentId, d, fuel - 1)

Subtree(fds, d) == {x \in {row.id : row \in fds} : InSubtree(fds, x, d, Cardinality(fds))}

\* the other request slot
Other(c) == CHOOSE o \in CallIds : o # c

\* DELETE /api/folders/:id up to the answer of `await storage.getFolderById`:
\* the early returns, or the request suspended with the folder found.  The
\* suspended request keeps the ids of the folders below the one it deletes, and
\* whether the other request was in flight together with it.
DeleteFolderLookup(c, user, id) ==
    LET folder == getFolderById(folders, id)
        o == Other(c)
        raced == calls[o].pc = "folderFound"
    IN /\ calls[c].pc = "idle"
       /\ IF id <= 0 THEN Reject(400)
          ELSE IF folder = {} THEN Reject(404)
          ELSE /\ calls' = [x \in CallIds |->
                               IF x = c
                               THEN [pc |-> "folderFound", user |-> user, id |-> id,
                                     subtree |-> Subtree(folders, id),
                                     raced |-> raced]
                               ELSE IF raced THEN [calls[x] EXCEPT !.raced = TRUE]
                               ELSE calls[x]]
               /\ UNCHANGED <<files, folders, auditLogs, nextFileId, nextFolderId, now,
                              policy, response, backup, users>>

\* DELETE /api/folders/:id from `await storage.deleteFolder` on; the answered
\* request keeps its status
DeleteFolderFinish(c) ==
    LET req == calls[c]
    IN /\ req.pc = "folderFound"
       /\ CanAudit
       /\ folders' = deleteFolder(folders, req.id)
       /\ auditLogs' = createAuditLog(auditLogs, req.user, "folder_deleted", "folder",
                                      req.id, Null)
       /\ Reply(204, {})
       /\ calls' = [calls EXCEPT ![c] = [pc |-> "done", id |-> req.id, status |-> 204,
                                         subtree |-> req.subtree, raced |-> req.raced]]
       /\ UNCHANGED <<files, nextFileId, nextFolderId, now, policy, backup, users>>

\* the tables are filled before the requests are made
NoRequest == \A c \in CallIds : calls[c].pc = "idle"

RaceCreateFolderStep == NoRequest /\ BackupCreateFolderStep

RaceCreateFileStep == NoRequest /\ BackupCreateFileStep

DeleteFolderLookupStep ==
    \E c \in CallIds, u \in Admins, d \in 0..MaxBackupFolderId : DeleteFolderLookup(c, u, d)

DeleteFolderFinishStep == \E c \in CallIds : DeleteFolderFinish(c)

NextFolderRace ==
    \/ RaceCreateFolderStep
    \/ RaceCreateFileStep
    \/ DeleteFolderLookupStep
    \/ DeleteFolderFinishStep

InitFolderRace == Init /\ policy = "purge"

SpecFolderRace == InitFolderRace /\ [][NextFolderRace]_vars

\* ------------------------- POST /api/files/:id/version (schema.ts), step by step
\* up to the answer of `await storage.getFile`: the early returns, or the
\* request suspended with the row it read.  `logged` holds what the request
\* has written with console.error.
PostFileVersionLookup(c, user, hasFile, fileId) ==
    LET existing == getFile(files, fileId)
        raced == calls[Other(c)].pc \in {"replaceFound", "replaceCreated",
                                         "replaceVersioned", "replaceRemoved"}
    IN /\ calls[c].pc = "idle"
       /\ IF existing = {} THEN Reject(404)
          ELSE IF ~hasFile THEN Reject(400)
          ELSE /\ calls' = [x \in CallIds |->
                               IF x = c
                               THEN [pc |-> "replaceFound", user |-> user,
                                     existingFile |-> CHOOSE f \in existing : TRUE,
                                     newFile |-> {}, raced |-> raced, logged |-> {}]
                               ELSE IF raced THEN [calls[x] EXCEPT !.raced = TRUE]
                               ELSE calls[x]]
               /\ UNCHANGED <<files, folders, auditLogs, nextFileId, nextFolderId, now,
                              policy, response, backup, users>>

\* `await storage.createFile`: the row is inserted, or the INSERT throws and
\* the handler's catch answers 500
PostFileVersionCreate(c, fails) ==
    LET req == calls[c]
        newFile == createFile(files,
                              [contractId |-> req.existingFile.contractId,
                               supplier |-> req.existingFile.supplier,
                               folderId |-> req.existingFile.folderId,
                               originalName |-> UploadedName,
                               archivo |-> UploadedBuffer,
                               uploadedBy |-> req.user,
                               previousVersionId |-> Null],
                              nextFileId, now)
    IN /\ req.pc = "replaceFound"
       /\ IF fails
          THEN /\ calls' = [calls EXCEPT ![c] =
                               [req EXCEPT !.pc = "done",
                                           !.logged = @ \cup {"Error updating file version"}]]
               /\ Reply(500, {})
               /\ UNCHANGED <<files, folders, auditLogs, nextFileId, nextFolderId, now,
                              policy, backup, users>>
          ELSE /\ nextFileId <= MaxFileId
               /\ nextFileId' = nextFileId + 1
               /\ files' = files \cup {newFile}
               /\ calls' = [calls EXCEPT ![c] =
                               [req EXCEPT !.pc = "replaceCreated", !.newFile = {newFile}]]
               /\ UNCHANGED <<folders, auditLogs, nextFolderId, now, policy, response,
                              backup, users>>

\* `await storage.updateFile(newFile.id, { version })` in its own try/catch
PostFileVersionUpdate(c, fails) ==
    LET req == calls[c]
        newFile == CHOOSE n \in req.newFile : TRUE
        version == (IF req.existingFile.version # 0 THEN req.existingFile.version ELSE 1) + 1
    IN /\ req.pc = "replaceCreated"
       /\ files' = IF fails THEN files ELSE updateFileVersion(files, newFile.id, version)
       /\ calls' = [calls EXCEPT ![c] =
                       [req EXCEPT !.pc = "replaceVersioned",
                                   !.logged = IF fails
                                              THEN @ \cup {"Failed to update version"}
                                              ELSE @]]
       /\ UNCHANGED <<folders, auditLogs, nextFileId, nextFolderId, now, policy, response,
                      backup, users>>

\* the previous row removed without waiting for its successor
PostFileVersionRemoveFirst(c, fails) ==
    LET req == calls[c]
    IN /\ req.pc \in {"replaceFound", "replaceVersioned"}
       /\ files' = IF fails THEN files
                   ELSE removeFilePermanently(files, req.existingFile.id)
       /\ calls' = [calls EXCEPT ![c] =
                       [req EXCEPT !.pc = IF req.pc = "replaceVersioned"
                                          THEN "replaceRemoved" ELSE req.pc,
                                   !.logged = IF fails
                                              THEN @ \cup {"Failed to remove"}
                                              ELSE @]]
       /\ UNCHANGED <<folders, auditLogs, nextFileId, nextFolderId, now, policy, response,
                      backup, users>>

\* `await storage.removeFilePermanently(existingFile.id)` in its own try/catch
PostFileVersionRemove(c, fails) ==
    LET req == calls[c]
    IN /\ req.pc = "replaceVersioned"
       /\ files' = IF fails THEN files
                   ELSE removeFilePermanently(files, req.existingFile.id)
       /\ calls' = [calls EXCEPT ![c] =
                       [req EXCEPT !.pc = "replaceRemoved",
                                   !.logged = IF fails
                                              THEN @ \cup {"Failed to remove"}
                                              ELSE @]]
       /\ UNCHANGED <<folders, auditLogs, nextFileId, nextFolderId, now, policy, response,
                      backup, users>>

\* the audit row and the answer, which is the row createFile returned
PostFileVersionAnswer(c) ==
    LET req == calls[c]
        newFile == CHOOSE n \in req.newFile : TRUE
    IN /\ req.pc = "replaceRemoved"
       /\ CanAudit
       /\ auditLogs' = createAuditLog(auditLogs, req.user, "replacement", "file",
                                      newFile.id, Null)
       /\ Reply(201, {newFile})
       /\ calls' = [calls EXCEPT ![c] = [req EXCEPT !.pc = "done"]]
       /\ UNCHANGED <<files, folders, nextFileId, nextFolderId, now, policy, backup, users>>

\* the tables are filled before the requests are made: uploads and soft-deletes
ReplaceRaceUploadStep ==
    /\ NoRequest
    /\ \E r \in UploadRaceRequests :
          PostFilesUpload(r.user, r.hasFile, r.contractId, r.supplier, r.folderId)

ReplaceRaceDeleteFileStep == NoRequest /\ DeleteFileStep

ReplaceLookupStep ==
    \E c \in CallIds, u \in Users, h \in BOOLEAN, f \in FileIdInputs :
        PostFileVersionLookup(c, u, h, f)

ReplaceCreateStep == \E c \in CallIds, fails \in BOOLEAN : PostFileVersionCreate(c, fails)

ReplaceUpdateStep == \E c \in CallIds, fails \in BOOLEAN : PostFileVersionUpdate(c, fails)

ReplaceRemoveStep == \E c \in CallIds, fails \in BOOLEAN : PostFileVersionRemove(c, fails)

ReplaceAnswerStep == \E c \in CallIds : PostFileVersionAnswer(c)

NextReplaceRace ==
    \/ Tick
    \/ ReplaceRaceUploadStep
    \/ ReplaceRaceDeleteFileStep
    \/ ReplaceLookupStep
    \/ ReplaceCreateStep
    \/ ReplaceUpdateStep
    \/ ReplaceRemoveStep
    \/ ReplaceAnswerStep

InitReplaceRace == Init /\ policy = "purge"

SpecReplaceRace == InitReplaceRace /\ [][NextReplaceRace]_vars

\* ------------------------------------------------------- claim vocabulary
ActiveFiles == {f \in files : ~f.isDeleted}

LastAuditAction == IF auditLogs = <<>> THEN "none" ELSE auditLogs[Len(auditLogs)].action

\* a well-formed upload of contractId c: file attached, supplier given
UploadOf(u, c, d) == PostFilesUpload(u, TRUE, c, <<"s">>, d)

\* the backward walk over previousVersionId from row f ends at a row with no
\* predecessor and version 1, the version falling at every step
RECURSIVE WalkEndsAtVersionOne(_, _)
WalkEndsAtVersionOne(fs, f) ==
    IF f.previousVersionId = Null THEN f.version = 1
    ELSE \E p \in fs : /\ p.id = f.previousVersionId
                       /\ p.version < f.version
                       /\ WalkEndsAtVersionOne(fs, p)

\* ------------------------------------------------------------------ claims
\* C1: no two active file rows share a contractId.
C1_UniqueActiveContractId ==
    \A f \in ActiveFiles, g \in ActiveFiles : f.contractId = g.contractId => f = g

C3_FolderDeleteRemovesSubtree ==
    [][\A u \in Admins, d \in FolderIdInputs :
          (response'.status = 204 /\ DeleteFolderRoute(u, d)) =>
             /\ \A x \in Subtree(folders, d) : getFolderById(folders', x) = {}
             /\ \A f \in files : f.folderId \in Subtree(folders, d) =>
                   getFileIncludingDeleted(files', f.id) = {}]_vars

\* C4: from every file row the walk over previousVersionId ends at a row with
\* previousVersionId = null and version = 1, the version falling at every step.
C4_ChainEndsAtVersionOne ==
    \A f \in files : WalkEndsAtVersionOne(files, f)

\* C5: getFileVersions of every existing file is non-empty, strictly increasing
\* in version, and starts with a row of version 1 and no predecessor.
C5_VersionsAscendingFromOne ==
    \A f \in files :
        LET versions == getFileVersions(files, f.id)
        IN /\ Len(versions) >= 1
           /\ \A i \in 1..(Len(versions) - 1) : versions[i].version < versions[i + 1].version
           /\ versions[1].version = 1
           /\ versions[1].previousVersionId = Null

ReplaceOf(u, h, id) ==
    \/ policy = "purge" /\ PostFileVersionPurge(u, h, id)
    \/ policy = "link" /\ PostFileVersionLink(u, h, id)
    \/ policy = "linkSoftDelete" /\ PostFileVersionLinkSoftDelete(u, h, id)

\* C6: the file returned by a successful replace has version = existing.version + 1.
C6_ReplaceReturnsNextVersion ==
    [][\A u \in Users, h \in BOOLEAN, id \in FileIdInputs :
          (response'.status = 201 /\ ReplaceOf(u, h, id)) =>
             \E e \in getFile(files, id) :
                /\ response'.body # {}
                /\ \A b \in response'.body : b.version = e.version + 1]_vars

CreateOf(i) == StorageCreateFile(i)

\* C8: createFile gives version = P.version + 1 when previousVersionId names an
\* existing row P, active or soft-deleted, and version = 1 otherwise.
C8_CreateFileVersion ==
    [][\A i \in InsertFiles : CreateOf(i) =>
          LET P == getFileIncludingDeleted(files, i.previousVersionId)
          IN \E n \in files' \ files :
                n.version = IF i.previousVersionId # Null /\ P # {}
                            THEN (CHOOSE p \in P : TRUE).version + 1
                            ELSE 1]_vars

Listings(fs) ==
    getAllFiles(fs) \cup getRecentFiles(fs, RecentLimit)
        \cup UNION {getFilesByUser(fs, u) : u \in Users}
        \cup UNION {getFilesByFolder(fs, d) : d \in FolderIdInputs}

\* C9: a soft-delete leaves the row in place with isDeleted = true and
\* deletedBy = the acting user; from then on, for as long as the row exists,
\* getFileIncludingDeleted returns it and getFile and the listings do not.
C9_SoftDeletedHidden ==
    /\ [][\A u \in Admins, id \in FileIdInputs :
             (response'.status = 204 /\ DeleteFileRoute(u, id)) =>
                \E f \in files' : f.id = id /\ f.isDeleted /\ f.deletedBy = u]_vars
    /\ [][\A f \in files : f.isDeleted =>
             \A g \in files' : g.id = f.id => g.isDeleted /\ g.deletedBy = f.deletedBy]_vars
    /\ [](\A f \in files : f.isDeleted =>
             /\ f \in getFileIncludingDeleted(files, f.id)
             /\ getFile(files, f.id) = {}
             /\ \A g \in Listings(files) : g.id # f.id)

\* C9 witness: a soft-delete by the administrator has just been answered 204
\* while another file of the same uploader and folder is still listed.
C9_Witness ==
    /\ response.status = 204
    /\ LastAuditAction = "delete"
    /\ \E f \in files, g \in files :
          /\ f.isDeleted /\ f.deletedBy = 1
          /\ ~g.isDeleted
          /\ f.uploadedBy = g.uploadedBy /\ f.folderId = g.folderId

\* C10: a soft-deleted row never becomes active again, and an id whose row has
\* been removed never has a row again.
C10_LifecycleOneWay ==
    [][/\ \A f \in files : f.isDeleted => \A g \in files' : g.id = f.id => g.isDeleted
       /\ \A id \in 1..(nextFileId - 1) :
             getFileIncludingDeleted(files, id) = {} =>
                getFileIncludingDeleted(files', id) = {}]_vars

\* C10 witness: one file has been purged by a replace and its successor has
\* then been soft-deleted.
C10_Witness ==
    /\ nextFileId = 3
    /\ getFileIncludingDeleted(files, 1) = {}
    /\ \E f \in files : f.id = 2 /\ f.isDeleted /\ f.version = 2

\* C11: for every folder f, getFolderPath(f.id) returns, and returns a path that
\* ends with f, starts with a folder without parent, and in which each folder
\* is the parent of the next.
C11_FolderPathRootToLeaf ==
    \A f \in folders :
        LET run == getFolderPath(folders, f.id)
            path == run.path
        IN /\ run.terminates
           /\ Len(path) >= 1
           /\ path[Len(path)] = f
           /\ path[1].parentId = Null
           /\ \A i \in 1..(Len(path) - 1) : path[i + 1].parentId = path[i].id

\* the parent chain of folder f reaches a folder without parent within fuel steps
RECURSIVE ParentChainEndsAtRoot(_, _, _)
ParentChainEndsAtRoot(fds, f, fuel) ==
    \/ f.parentId = Null
    \/ /\ fuel > 0
       /\ \E p \in fds : p.id = f.parentId /\ ParentChainEndsAtRoot(fds, p, fuel - 1)

\* C12: the parent relation has no cycle and every parent chain ends at a
\* folder with parentId = null (no chain ends at a missing folder).
C12_ParentChainAcyclic ==
    \A f \in folders :
        /\ f.parentId # f.id
        /\ ParentChainEndsAtRoot(folders, f, Cardinality(folders) - 1)

\* the step appends exactly one audit row, and that row carries user u
OneAuditRowBy(u) ==
    /\ Len(auditLogs') = Len(auditLogs) + 1
    /\ SubSeq(auditLogs', 1, Len(auditLogs)) = auditLogs
    /\ auditLogs'[Len(auditLogs')].userId = u

\* C13: every mutating call that completes with success (create, rename and
\* delete folder, upload, replace, soft-delete and move file) appends exactly
\* one audit row, carrying the acting user's id.
C13_OneAuditRowPerMutation ==
    [][/\ \A u \in Admins, n \in FolderNameInputs, p \in FolderIdInputs :
             (response'.status = 201 /\ PostFolders(u, n, p)) => OneAuditRowBy(u)
       /\ \A u \in Admins, d \in FolderIdInputs, n \in FolderNameInputs :
             (response'.status = 200 /\ PatchFolder(u, d, n)) => OneAuditRowBy(u)
       /\ \A u \in Admins, d \in FolderIdInputs :
             /\ (response'.status = 204 /\ policy # "link" /\ DeleteFolderRoute(u, d))
                   => OneAuditRowBy(u)
             /\ (response'.status = 204 /\ policy = "link"
                    /\ getFolderById(folders, d) # {} /\ DeleteFolderRouteOlder(u, d))
                   => OneAuditRowBy(u)
       /\ \A u \in Users, c \in ContractIdInputs, d \in FolderIdInputs :
             (response'.status = 201 /\ UploadOf(u, c, d)) => OneAuditRowBy(u)
       /\ \A u \in Users, id \in FileIdInputs :
             (response'.status = 201 /\ ReplaceOf(u, TRUE, id)) => OneAuditRowBy(u)
       /\ \A u \in Admins, id \in FileIdInputs :
             (response'.status = 204 /\ DeleteFileRoute(u, id)) => OneAuditRowBy(u)
       /\ \A u \in Admins, id \in FileIdInputs, d \in FolderIdInputs :
             (response'.status = 200 /\ PatchFileMove(u, id, d)) => OneAuditRowBy(u)]_vars

\* C14: the audit log only grows: every step keeps the rows already written,
\* unchanged and in place.
C14_AuditAppendOnly ==
    [][/\ Len(auditLogs') >= Len(auditLogs)
       /\ SubSeq(auditLogs', 1, Len(auditLogs)) = auditLogs]_vars

\* C14 witness: three rows written by three different kinds of call.
C14_Witness ==
    /\ Len(auditLogs) = 3
    /\ auditLogs[1].action = "folder_created"
    /\ auditLogs[2].action = "upload"
    /\ auditLogs[3].action = "delete"

\* the number of audit rows with the given action
AuditCount(logs, action) == Cardinality({i \in 1..Len(logs) : logs[i].action = action})

MustBeRefused(name) ==
    LET trimmedName == trim(name)
    IN \/ Len(trimmedName) = 0
       \/ Len(trimmedName) > MaxFolderNameLen
       \/ \A i \in 1..Len(trimmedName) : trimmedName[i] \in InvalidNameChars

\* C20: create and rename answer 400, change no folder row and write no audit
\* row when the name must be refused; every stored folder name has length
\* 1..255 and holds no invalid character.
C20_FolderNameValidation ==
    /\ [][\A u \in Admins, n \in FolderNameInputs \cup RejectedFolderNames,
             d \in FolderIdInputs :
             (MustBeRefused(n) /\ (PostFolders(u, n, d) \/ PatchFolder(u, 1, n))) =>
                /\ response'.status = 400
                /\ folders' = folders
                /\ auditLogs' = auditLogs]_vars
    /\ [](\A d \in folders :
             /\ Len(d.name) \in 1..MaxFolderNameLen
             /\ \A i \in 1..Len(d.name) : d.name[i] \notin InvalidNameChars)

SuccessStatuses == {200, 201, 204}

\* C15: when the audit write fails after the primary mutation has been made
\* (folder deleted, file row inserted), the handler still answers with success.
C15_AuditFailureSwallowed ==
    [][/\ \A u \in Admins, d \in FolderIdInputs :
             DeleteFolderRouteAuditFails(u, d) => response'.status \in SuccessStatuses
       /\ \A d \in FolderIdInputs :
             PostFilesUploadAuditFails(2, <<"B">>, <<"s">>, d) =>
                response'.status \in SuccessStatuses]_vars

\* the files a backup request must write according to the spec: the active
\* rows uploaded within the range that no row of that same selection supersedes
LatestInRange(r) ==
    LET selected == getFilesByDateRange(files, backupStartDate(r.range, r.start),
                                        backupEndDate(r.range, r.end, now))
    IN {f \in selected : \A o \in selected : o.previousVersionId # f.id}

\* the files whose payload the archive holds
Written(archive) == {e.source : e \in archive}

C17_BackupAuditCount ==
    [][GetBackupAudit =>
          /\ backup.pc = "finalized"
          /\ Len(auditLogs') = Len(auditLogs) + 1
          /\ auditLogs'[Len(auditLogs')].action = "backup_executed"
          /\ auditLogs'[Len(auditLogs')].details = Cardinality(backup.archive)]_vars

\* the folder names of a path, root first, joined by "/"
RECURSIVE FolderNamesJoined(_)
FolderNamesJoined(path) ==
    IF path = <<>> THEN <<>>
    ELSE IF Len(path) = 1 THEN path[1].name
    ELSE FolderNamesJoined(SubSeq(path, 1, Len(path) - 1)) \o <<"/">> \o path[Len(path)].name

Account(us) == CHOOSE u \in us : u.username = "user"

\* C21: a wrong password on the unlocked, active account adds one to
\* failedLoginAttempts, nothing but a successful login lowers the counter, and
\* when the counter reaches 5 the account is locked; while the account is
\* locked every login on it, the right password included, is rejected and
\* changes no user row; a successful login sets failedLoginAttempts to 0 and
\* lockedUntil to null.
C21_LockoutAfterFiveFailures ==
    [][/\ \A r \in LoginRequests :
             (r.username = "user" /\ PostLogin(r.username, r.password)) =>
                LET u == Account(users)
                    v == Account(users')
                IN /\ isLocked(u, now) =>
                         /\ response'.status # 200
                         /\ users' = users
                   /\ (~isLocked(u, now) /\ u.isActive /\ r.password # u.password) =>
                         /\ response'.status # 200
                         /\ v.failedLoginAttempts = u.failedLoginAttempts + 1
                         /\ v.failedLoginAttempts >= MAX_FAILED_ATTEMPTS =>
                               /\ isLocked(v, now)
                               /\ v.lockedUntil = now + LOCK_DURATION
                   /\ response'.status = 200 =>
                         /\ r.password = u.password
                         /\ v.failedLoginAttempts = 0
                         /\ v.lockedUntil = Null
       /\ response'.status # 200 =>
             Account(users').failedLoginAttempts >= Account(users).failedLoginAttempts]_vars

\* C21 witness: after a successful login, five wrong passwords have locked the
\* account and a further login on it has been answered 423.
C21_Witness ==
    /\ Len(auditLogs) = 7
    /\ auditLogs[1].action = "login"
    /\ \A i \in 2..7 : auditLogs[i].action = "login_failed" /\ auditLogs[i].details = "user"
    /\ Account(users).failedLoginAttempts = MAX_FAILED_ATTEMPTS
    /\ isLocked(Account(users), now)
    /\ response.status = 423

\* C22: the insert of an upload that has passed the availability check adds its
\* active row and answers 201 whatever the table holds by then; two uploads of
\* one contractId that have both passed the check therefore both add a row.
C22_UploadRacePastCheck ==
    [][\A c \in CallIds :
          PostFilesUploadInsert(c) =>
             /\ response'.status = 201
             /\ \E n \in files' \ files :
                   /\ files' = files \cup {n}
                   /\ ~n.isDeleted
                   /\ n.contractId = trim(calls[c].contractId)]_vars

\* C22 witness: two uploads of one contractId were suspended after their check
\* at the same time, and both have inserted: two active rows share a contractId.
C22_Witness ==
    /\ \A c \in CallIds : calls[c].pc = "idle"
    /\ response.status = 201
    /\ Len(auditLogs) = 2
    /\ \E f \in files, g \in files :
          /\ f.id = 1 /\ g.id = 2
          /\ ~f.isDeleted /\ ~g.isDeleted
          /\ f.contractId = g.contractId

\* C23: when two folder deletions, one of a folder and one of a folder below
\* it, have been in flight together and both have been answered, both answers
\* are 204 and no folder row and no file row of the outer folder's subtree is left.
C23_ConcurrentNestedDeletes ==
    \A c \in CallIds :
        LET outer == calls[c]
            inner == calls[Other(c)]
        IN ( /\ outer.pc = "done" /\ inner.pc = "done"
             /\ outer.raced /\ inner.raced
             /\ inner.id \in outer.subtree \ {outer.id} ) =>
              /\ outer.status = 204
              /\ inner.status = 204
              /\ \A s \in outer.subtree : getFolderById(folders, s) = {}
              /\ \A f \in files : f.folderId \notin outer.subtree

\* C24: a step removes a folder row only when no file row is stored in that
\* folder and no other folder row has it as parent; so after the step no
\* remaining row refers to the removed folder.
C24_FolderRowDeletedLast ==
    [][\A d \in folders :
          getFolderById(folders', d.id) = {} =>
             /\ \A f \in files : f.folderId # d.id
             /\ \A x \in folders : x.id # d.id => x.parentId # d.id
             /\ \A f \in files' : f.folderId # d.id
             /\ \A x \in folders' : x.parentId # d.id]_vars

\* a replace request that has read its row and has not been answered
Replacing(c) ==
    calls[c].pc \in {"replaceFound", "replaceCreated", "replaceVersioned", "replaceRemoved"}

\* C25: a replace removes the row it replaces only once it has created its
\* successor, and no other step removes a file row; while a replace is in progress the table holds a row for its
\* contract; when createFile fails the request is answered 500 with the files
\* table unchanged.
C25_PurgeAfterCreate ==
    /\ [][\A c \in CallIds, fails \in BOOLEAN :
             (PostFileVersionRemove(c, fails) /\ files' # files) =>
                /\ calls[c].newFile # {}
                /\ \A n \in calls[c].newFile : n.id # calls[c].existingFile.id]_vars
    /\ [][\A e \in files :
             getFileIncludingDeleted(files', e.id) = {} =>
                \E c \in CallIds :
                   /\ calls[c].pc = "replaceVersioned"
                   /\ calls[c].existingFile.id = e.id
                   /\ \E n \in files' : n.contractId = e.contractId]_vars
    /\ [](\A c \in CallIds :
             Replacing(c) =>
                \E f \in files : f.contractId = calls[c].existingFile.contractId)
    /\ [][\A c \in CallIds :
             PostFileVersionCreate(c, TRUE) =>
                /\ response'.status = 500
                /\ files' = files
                /\ auditLogs' = auditLogs]_vars

\* C25 witness: a replace has been answered 201 after its createFile had
\* failed once on an earlier request: the replaced row is gone and its
\* successor is in the table.
C25_Witness ==
    \E c \in CallIds :
        /\ calls[c].pc = "done"
        /\ calls[Other(c)].pc = "done"
        /\ calls[Other(c)].newFile = {}
        /\ response.status = 201
        /\ getFileIncludingDeleted(files, calls[c].existingFile.id) = {}
        /\ \E n \in calls[c].newFile :
              \E g \in files : g.id = n.id /\ g.version = calls[c].existingFile.version + 1

\* C30: when two replace requests that read the same active file have been in
\* flight together and both have been answered 201 with no error met, the table
\* holds exactly
\* one active row with that file's contractId, its version is the original
\* version plus one, and the table holds no row for the original file.
C30_ConcurrentReplaces ==
    \A c \in CallIds :
        LET a == calls[c]
            b == calls[Other(c)]
        IN ( /\ a.pc = "done" /\ b.pc = "done"
             /\ a.raced /\ b.raced
             /\ a.newFile # {} /\ b.newFile # {}
             /\ a.logged = {} /\ b.logged = {}
             /\ a.existingFile.id = b.existingFile.id ) =>
              /\ Cardinality({f \in ActiveFiles :
                                 f.contractId = a.existingFile.contractId}) = 1
              /\ \A f \in ActiveFiles :
                    f.contractId = a.existingFile.contractId =>
                       f.version = a.existingFile.version + 1
              /\ getFileIncludingDeleted(files, a.existingFile.id) = {}

C27_FolderPathTerminates ==
    \A id \in FolderIdInputs \cup {d.parentId : d \in folders} :
        getFolderPath(folders, id).terminates

\* C28: under the link-and-soft-delete replace, getFileVersions of an active
\* file returns its whole chain: versions 1, 2, ... in this order, each row
\* linked to the one before it, the last row being the file itself and the
\* only active one; and a successful replace makes the chain one row longer.
C28_HistoryPreservingVersions ==
    /\ [](policy = "linkSoftDelete" =>
            \A f \in ActiveFiles :
               LET versions == getFileVersions(files, f.id)
               IN /\ Len(versions) >= 1
                  /\ versions[Len(versions)] = f
                  /\ \A i \in 1..Len(versions) :
                        /\ versions[i].version = i
                        /\ i < Len(versions) => versions[i].isDeleted
                        /\ versions[i].previousVersionId
                              = IF i = 1 THEN Null ELSE versions[i - 1].id)
    /\ [][\A u \in Users, id \in FileIdInputs :
             ( /\ policy = "linkSoftDelete"
               /\ response'.status = 201
               /\ PostFileVersionLinkSoftDelete(u, TRUE, id) ) =>
                \E n \in files' :
                   /\ n.id = nextFileId
                   /\ ~n.isDeleted
                   /\ Len(getFileVersions(files', n.id))
                         = Len(getFileVersions(files, id)) + 1]_vars

\* C28 witness: an uploaded file has been replaced twice: the active row has
\* version 3 and its two predecessors are soft-deleted.
C28_Witness ==
    /\ policy = "linkSoftDelete"
    /\ response.status = 201
    /\ \E f \in ActiveFiles :
          /\ f.version = 3
          /\ Len(getFileVersions(files, f.id)) = 3
          /\ \A g \in files : g.id # f.id => g.isDeleted

\* C29: the folderId of every file row is null or the id of a folder row; an
\* upload, or a move of an existing file, that names a folder with no row is
\* answered 404 and changes no row.
C29_FolderIdNamesFolder ==
    /\ [](\A f \in files : f.folderId = Null \/ getFolderById(folders, f.folderId) # {})
    /\ [][\A d \in FolderIdInputs :
             (d # Null /\ getFolderById(folders, d) = {}) =>
                /\ \A u \in Users, c \in ContractIdInputs :
                      UploadOf(u, c, d) =>
                         /\ response'.status = 404
                         /\ files' = files
                         /\ auditLogs' = auditLogs
                /\ \A u \in Admins, f \in files :
                      PatchFileMove(u, f.id, d) =>
                         /\ response'.status = 404
                         /\ files' = files
                         /\ auditLogs' = auditLogs]_vars
====
